---- MODULE Spec2Model ----
(***************************************************************************)
(* Model of tools/parse_image_header.py: a single-shot script that reads   *)
(* the first 32 bytes of a firmware image, prints three header fields and  *)
(* three candidate decodings of the SPI byte, re-reads the whole file and  *)
(* reports the ASCII size markers it contains.                             *)
(*                                                                         *)
(* One action per statement group of the script; pc is the position of the *)
(* interpreter.  The file named on the command line is not modified while  *)
(* the script runs.  A run can be followed by a second run of a fresh      *)
(* process on the same input (Rerun), which is how the statements about    *)
(* repeated invocations are checked.                                       *)
(***************************************************************************)
EXTENDS Integers, Sequences, FiniteSets, TLC

VARIABLES
    input,       \* what the command line names: [kind, bytes]
    run,         \* number of the current invocation
    prevOut,     \* stdout of the previous invocation
    prevExit,    \* exit status of the previous invocation
    prevFault,   \* uncaught exception of the previous invocation
    pc,          \* position of the interpreter in the script
    f,           \* open file objects (1: first with-block, 2: second)
    data,        \* header window
    b,           \* list(data)
    magic, seg_count, spi_byte,
    low3, low4, high3,
    content,     \* whole file, second read
    idx,         \* position of the for loop in the marker list
    out,         \* lines written to standard output
    exitStatus,  \* process exit status, -1 while running
    fault        \* uncaught exception that ended the process, or "none"

vars == <<input, run, prevOut, prevExit, prevFault, pc, f, data, b, magic,
          seg_count, spi_byte, low3, low4, high3, content, idx, out,
          exitStatus, fault>>

(***************************************************************************)
(* Bounds of the model                                                     *)
(***************************************************************************)
MaxChunks == 3
MaxRuns == 2

(***************************************************************************)
(* Program constants                                                       *)
(***************************************************************************)
HeaderWindow == 32
MinHeader == 8
DumpLen == 16

Byte == 0..255

Min(x, y) == IF x < y THEN x ELSE y

(***************************************************************************)
(* Integer operators of the script                                         *)
(***************************************************************************)
RECURSIVE BitAnd(_, _)
BitAnd(x, y) ==
    IF x = 0 \/ y = 0 THEN 0
    ELSE (IF x % 2 = 1 /\ y % 2 = 1 THEN 1 ELSE 0) + 2 * BitAnd(x \div 2, y \div 2)

RECURSIVE ShiftRight(_, _)
ShiftRight(x, n) == IF n = 0 THEN x ELSE ShiftRight(x \div 2, n - 1)

Low3Narrow(v) == BitAnd(v, 3)
Low3(v) == BitAnd(v, 7)

Low4(v) == BitAnd(v, 15)

High3NoShiftMask(v) == BitAnd(ShiftRight(v, 4), 15)
High3(v) == BitAnd(ShiftRight(v, 4), 7)

size_map == (0 :> "1MB") @@ (1 :> "2MB") @@ (2 :> "4MB") @@
            (3 :> "8MB") @@ (4 :> "16MB") @@ (5 :> "32MB")

size_map_get(v) == IF v \in DOMAIN size_map THEN size_map[v] ELSE "unknown"

(***************************************************************************)
(* Text formatting: every printed line is a sequence of text pieces        *)
(***************************************************************************)
HexDigits == <<"0", "1", "2", "3", "4", "5", "6", "7",
               "8", "9", "a", "b", "c", "d", "e", "f">>

\* f'{x:02x}' : at least two lower-case hexadecimal digits
RECURSIVE HexStr(_)
HexStr(x) == IF x < 16 THEN <<HexDigits[x + 1]>>
             ELSE HexStr(x \div 16) \o <<HexDigits[(x % 16) + 1]>>
Hex2(x) == IF x < 16 THEN <<"0">> \o HexStr(x) ELSE HexStr(x)

\* f'{x:08b}' : at least eight binary digits
RECURSIVE BinStr(_)
BinStr(x) == IF x < 2 THEN <<HexDigits[x + 1]>>
             ELSE BinStr(x \div 2) \o <<HexDigits[(x % 2) + 1]>>
RECURSIVE ZeroPad(_, _)
ZeroPad(s, w) == IF Len(s) >= w THEN s ELSE ZeroPad(<<"0">> \o s, w)
Bin8(x) == ZeroPad(BinStr(x), 8)

\* str(int) for a non-negative integer
RECURSIVE Dec(_)
Dec(n) == IF n < 10 THEN <<HexDigits[n + 1]>>
          ELSE Dec(n \div 10) \o <<HexDigits[(n % 10) + 1]>>

\* ' '.join(f'{x:02x}' for x in bs)
RECURSIVE JoinHex(_)
JoinHex(bs) ==
    IF bs = <<>> THEN <<>>
    ELSE IF Len(bs) = 1 THEN Hex2(bs[1])
    ELSE Hex2(bs[1]) \o <<" ">> \o JoinHex(Tail(bs))

\* the ASCII characters the marker list uses
AsciiChar == (48 :> "0") @@ (49 :> "1") @@ (50 :> "2") @@ (52 :> "4") @@
             (54 :> "6") @@ (56 :> "8") @@ (57 :> "9") @@ (66 :> "B") @@
             (77 :> "M") @@ (107 :> "k")

\* s.decode(errors='ignore') : bytes that do not decode are dropped
RECURSIVE Decode(_)
Decode(s) ==
    IF s = <<>> THEN <<>>
    ELSE IF s[1] \in DOMAIN AsciiChar THEN <<AsciiChar[s[1]]>> \o Decode(Tail(s))
    ELSE Decode(Tail(s))

(***************************************************************************)
(* Marker list and byte-level containment                                  *)
(***************************************************************************)
M4096 == <<52, 48, 57, 54>>
M8192 == <<56, 49, 57, 50>>
M8MB == <<56, 77, 66>>
M4MB == <<52, 77, 66>>
M8192k == <<56, 49, 57, 50, 107>>
M4096k == <<52, 48, 57, 54, 107>>

\* the order scan_firmware.py uses for the same patterns
MarkersScanOrder == <<M8192, M4096, M8MB, M4MB, M8192k, M4096k>>
\* an unordered collection: the iteration order changes from process to process
MarkersHashOrder ==
    IF run = 1 THEN <<M4096, M8192, M8MB, M4MB, M8192k, M4096k>>
    ELSE <<M4096k, M8192k, M4MB, M8MB, M8192, M4096>>
Markers == <<M4096, M8192, M8MB, M4MB, M8192k, M4096k>>

\* s in content : left-to-right search for the first occurrence
RECURSIVE FindFrom(_, _, _)
FindFrom(s, c, i) ==
    IF i + Len(s) - 1 > Len(c) THEN FALSE
    ELSE IF \A k \in 1..Len(s) : c[i + k - 1] = s[k] THEN TRUE
    ELSE FindFrom(s, c, i + 1)

bytes_contains(s, c) == FindFrom(s, c, 1)

(***************************************************************************)
(* Inputs                                                                  *)
(***************************************************************************)
Zero16 == [k \in 1..16 |-> 0]
Zero5 == [k \in 1..5 |-> 0]

Chunks == {Zero16, <<0>>, <<233, 3, 2>>, M4096, M8192, M8MB, M4MB, <<107>>,
           <<52, 109, 98>>}

RECURSIVE Flatten(_)
Flatten(ss) == IF ss = <<>> THEN <<>> ELSE Head(ss) \o Flatten(Tail(ss))

ChunkFiles == { Flatten(cs) : cs \in UNION { [1..n -> Chunks] : n \in 0..MaxChunks } }

HeaderFiles == { <<m, s, c>> \o Zero5 : m \in {233, 0}, s \in {3, 16}, c \in Byte }

Inputs ==
    { [kind |-> k, bytes |-> <<>>] : k \in {"noarg", "missing", "unreadable"} }
    \cup { [kind |-> "file", bytes |-> bs] : bs \in ChunkFiles \cup HeaderFiles }

(***************************************************************************)
(* State of a freshly started process                                      *)
(***************************************************************************)
ProcessStart ==
    /\ pc = "argv"
    /\ f = {}
    /\ data = <<>>
    /\ b = <<>>
    /\ magic = -1
    /\ seg_count = -1
    /\ spi_byte = -1
    /\ low3 = -1
    /\ low4 = -1
    /\ high3 = -1
    /\ content = <<>>
    /\ idx = 1
    /\ out = <<>>
    /\ exitStatus = -1
    /\ fault = "none"

Init ==
    /\ input \in Inputs
    /\ run = 1
    /\ prevOut = <<>>
    /\ prevExit = -1
    /\ prevFault = "none"
    /\ ProcessStart

runVars == <<input, run, prevOut, prevExit, prevFault>>
fieldVars == <<magic, seg_count, spi_byte>>
candVars == <<low3, low4, high3>>

\* an exception nobody catches: traceback on stderr, exit status 1
Uncaught(e) ==
    /\ fault' = e
    /\ exitStatus' = 1
    /\ pc' = "done"

(***************************************************************************)
(* The script, statement by statement                                      *)
(***************************************************************************)

\* line 3: fn = sys.argv[1]
ReadArgv ==
    /\ pc = "argv"
    /\ IF input.kind = "noarg"
       THEN Uncaught("IndexError")
       ELSE /\ pc' = "open1"
            /\ UNCHANGED <<exitStatus, fault>>
    /\ UNCHANGED <<runVars, f, data, b, fieldVars, candVars, content, idx, out>>

\* line 4: with open(fn, 'rb') as f
Open1 ==
    /\ pc = "open1"
    /\ IF input.kind = "missing" THEN
            /\ Uncaught("FileNotFoundError")
            /\ UNCHANGED f
       ELSE IF input.kind = "unreadable" THEN
            /\ Uncaught("PermissionError")
            /\ UNCHANGED f
       ELSE /\ f' = f \cup {1}
            /\ pc' = "read1"
            /\ UNCHANGED <<exitStatus, fault>>
    /\ UNCHANGED <<runVars, data, b, fieldVars, candVars, content, idx, out>>

\* line 5: data = f.read(32)
Read1 ==
    /\ pc = "read1"
    /\ data' = SubSeq(input.bytes, 1, Min(HeaderWindow, Len(input.bytes)))
    /\ pc' = "close1"
    /\ UNCHANGED <<runVars, f, b, fieldVars, candVars, content, idx, out,
                   exitStatus, fault>>

\* the file object is bound without a with-block and is never closed
Close1Leak ==
    /\ pc = "close1"
    /\ pc' = "check"
    /\ UNCHANGED <<runVars, f, data, b, fieldVars, candVars, content, idx, out,
                   exitStatus, fault>>
\* end of the with-block of lines 4-5
Close1 ==
    /\ pc = "close1"
    /\ f' = f \ {1}
    /\ pc' = "check"
    /\ UNCHANGED <<runVars, data, b, fieldVars, candVars, content, idx, out,
                   exitStatus, fault>>

\* the size test compares against the three bytes the script indexes
SizeCheckThree ==
    /\ pc = "check"
    /\ IF Len(data) < 3
       THEN /\ out' = Append(out, <<"File too small">>)
            /\ pc' = "exit2"
       ELSE /\ pc' = "dump"
            /\ UNCHANGED out
    /\ UNCHANGED <<runVars, f, data, b, fieldVars, candVars, content, idx,
                   exitStatus, fault>>
\* lines 6-7: if len(data) < 8: print('File too small')
SizeCheck ==
    /\ pc = "check"
    /\ IF Len(data) < MinHeader
       THEN /\ out' = Append(out, <<"File too small">>)
            /\ pc' = "exit2"
       ELSE /\ pc' = "dump"
            /\ UNCHANGED out
    /\ UNCHANGED <<runVars, f, data, b, fieldVars, candVars, content, idx,
                   exitStatus, fault>>

\* line 8: sys.exit(2)
SysExit ==
    /\ pc = "exit2"
    /\ exitStatus' = 2
    /\ pc' = "done"
    /\ UNCHANGED <<runVars, f, data, b, fieldVars, candVars, content, idx, out,
                   fault>>

\* lines 15-16: b = list(data); print('Header bytes:', ...)
DumpHeader ==
    /\ pc = "dump"
    /\ b' = data
    /\ out' = Append(out, <<"Header bytes:">>
                          \o JoinHex(SubSeq(data, 1, Min(DumpLen, Len(data)))))
    /\ pc' = "fields"
    /\ UNCHANGED <<runVars, f, data, fieldVars, candVars, content, idx,
                   exitStatus, fault>>

\* lines 17-19: magic = b[0]; seg_count = b[1]; spi_byte = b[2]
ExtractFields ==
    /\ pc = "fields"
    /\ IF Len(b) < 3
       THEN /\ Uncaught("IndexError")
            /\ UNCHANGED fieldVars
       ELSE /\ magic' = b[1]
            /\ seg_count' = b[2]
            /\ spi_byte' = b[3]
            /\ pc' = "printfields"
            /\ UNCHANGED <<exitStatus, fault>>
    /\ UNCHANGED <<runVars, f, data, b, candVars, content, idx, out>>

\* lines 20-22: the three field lines
PrintFields ==
    /\ pc = "printfields"
    /\ out' = out \o << <<"Magic: 0x">> \o Hex2(magic),
                        <<"Segment count: ">> \o Dec(seg_count),
                        <<"Raw spi byte: 0x">> \o Hex2(spi_byte) \o <<" (">>
                            \o Bin8(spi_byte) \o <<")">> >>
    /\ pc' = "decode"
    /\ UNCHANGED <<runVars, f, data, b, fieldVars, candVars, content, idx,
                   exitStatus, fault>>

\* lines 36-38: low3, low4, high3
DecodeCandidates ==
    /\ pc = "decode"
    /\ low3' = Low3(spi_byte)
    /\ low4' = Low4(spi_byte)
    /\ high3' = High3(spi_byte)
    /\ pc' = "candidates"
    /\ UNCHANGED <<runVars, f, data, b, fieldVars, content, idx, out,
                   exitStatus, fault>>

CandidateLine(label, v) == <<label>> \o Dec(v) \o <<size_map_get(v)>>

\* the table is indexed (size_map[v]) instead of queried with a default
PrintCandidatesKeyError ==
    /\ pc = "candidates"
    /\ IF low3 \notin DOMAIN size_map THEN
            /\ out' = Append(out, <<"Decoded candidates:">>)
            /\ Uncaught("KeyError")
       ELSE IF low4 \notin DOMAIN size_map THEN
            /\ out' = out \o << <<"Decoded candidates:">>,
                                CandidateLine(" - lower 3 bits ->", low3) >>
            /\ Uncaught("KeyError")
       ELSE IF high3 \notin DOMAIN size_map THEN
            /\ out' = out \o << <<"Decoded candidates:">>,
                                CandidateLine(" - lower 3 bits ->", low3),
                                CandidateLine(" - lower 4 bits ->", low4) >>
            /\ Uncaught("KeyError")
       ELSE /\ out' = out \o << <<"Decoded candidates:">>,
                                CandidateLine(" - lower 3 bits ->", low3),
                                CandidateLine(" - lower 4 bits ->", low4),
                                CandidateLine(" - upper 3 bits ->", high3) >>
            /\ pc' = "open2"
            /\ UNCHANGED <<exitStatus, fault>>
    /\ UNCHANGED <<runVars, f, data, b, fieldVars, candVars, content, idx>>
\* lines 39-42: the candidate lines
PrintCandidates ==
    /\ pc = "candidates"
    /\ out' = out \o << <<"Decoded candidates:">>,
                        CandidateLine(" - lower 3 bits ->", low3),
                        CandidateLine(" - lower 4 bits ->", low4),
                        CandidateLine(" - upper 3 bits ->", high3) >>
    /\ pc' = "open2"
    /\ UNCHANGED <<runVars, f, data, b, fieldVars, candVars, content, idx,
                   exitStatus, fault>>

\* line 45: with open(fn, 'rb') as f
Open2 ==
    /\ pc = "open2"
    /\ f' = f \cup {2}
    /\ pc' = "read2"
    /\ UNCHANGED <<runVars, data, b, fieldVars, candVars, content, idx, out,
                   exitStatus, fault>>

\* the scan reuses the header window instead of the whole file
Read2Window ==
    /\ pc = "read2"
    /\ content' = SubSeq(input.bytes, 1, Min(HeaderWindow, Len(input.bytes)))
    /\ pc' = "close2"
    /\ UNCHANGED <<runVars, f, data, b, fieldVars, candVars, idx, out,
                   exitStatus, fault>>
\* line 46: content = f.read()
Read2 ==
    /\ pc = "read2"
    /\ content' = input.bytes
    /\ pc' = "close2"
    /\ UNCHANGED <<runVars, f, data, b, fieldVars, candVars, idx, out,
                   exitStatus, fault>>

\* end of the with-block of lines 45-46
Close2 ==
    /\ pc = "close2"
    /\ f' = f \ {2}
    /\ pc' = "loop"
    /\ UNCHANGED <<runVars, data, b, fieldVars, candVars, content, idx, out,
                   exitStatus, fault>>

MarkerLine(s) == <<"Found ascii marker:">> \o Decode(s)
DoneLines == << <<>>, <<"Done">> >>

\* the completion print is indented into the loop body
MarkerStepDoneInLoop ==
    /\ pc = "loop"
    /\ idx <= Len(Markers)
    /\ out' = (IF bytes_contains(Markers[idx], content)
               THEN Append(out, MarkerLine(Markers[idx])) ELSE out) \o DoneLines
    /\ idx' = idx + 1
    /\ UNCHANGED <<runVars, pc, f, data, b, fieldVars, candVars, content,
                   exitStatus, fault>>
\* lines 47-49: one iteration of the for loop
MarkerStep ==
    /\ pc = "loop"
    /\ idx <= Len(Markers)
    /\ IF bytes_contains(Markers[idx], content)
       THEN out' = Append(out, MarkerLine(Markers[idx]))
       ELSE UNCHANGED out
    /\ idx' = idx + 1
    /\ UNCHANGED <<runVars, pc, f, data, b, fieldVars, candVars, content,
                   exitStatus, fault>>

\* line 51: print('\nDone'), then the module ends and the process exits 0
PrintDone ==
    /\ pc = "loop"
    /\ idx > Len(Markers)
    /\ out' = out \o DoneLines
    /\ exitStatus' = 0
    /\ pc' = "done"
    /\ UNCHANGED <<runVars, f, data, b, fieldVars, candVars, content, idx, fault>>

\* the same command is started again in a new process
Rerun ==
    /\ pc = "done"
    /\ run < MaxRuns
    /\ run' = run + 1
    /\ prevOut' = out
    /\ prevExit' = exitStatus
    /\ prevFault' = fault
    /\ pc' = "argv"
    /\ f' = {}
    /\ data' = <<>>
    /\ b' = <<>>
    /\ magic' = -1
    /\ seg_count' = -1
    /\ spi_byte' = -1
    /\ low3' = -1
    /\ low4' = -1
    /\ high3' = -1
    /\ content' = <<>>
    /\ idx' = 1
    /\ out' = <<>>
    /\ exitStatus' = -1
    /\ fault' = "none"
    /\ UNCHANGED input

Step ==
    \/ ReadArgv
    \/ Open1
    \/ Read1
    \/ Close1
    \/ SizeCheck
    \/ SysExit
    \/ DumpHeader
    \/ ExtractFields
    \/ PrintFields
    \/ DecodeCandidates
    \/ PrintCandidates
    \/ Open2
    \/ Read2
    \/ Close2
    \/ MarkerStep
    \/ PrintDone

Next == Step \/ Rerun

Spec == Init /\ [][Next]_vars

\* the interpreter runs every statement of a started process to completion
FairSpec == Spec /\ WF_vars(Step)

(***************************************************************************)
(* Vocabulary of the properties                                            *)
(***************************************************************************)
IsFile == input.kind = "file"
TooSmallFile == IsFile /\ Len(input.bytes) < 8
OkFile == IsFile /\ Len(input.bytes) >= 8
NoPath == input.kind \in {"missing", "unreadable"}
Finished == pc = "done"

\* the lines of standard output that start with the given label
LinesWith(label) == { k \in 1..Len(out) : Len(out[k]) > 0 /\ out[k][1] = label }
LastPiece(line) == line[Len(line)]

\* the marker occurs at some offset of the byte sequence
Occurs(m, c) == \E k \in 1..(Len(c) - Len(m) + 1) : SubSeq(c, k, k + Len(m) - 1) = m

\* the label the size table is documented to give
ExpectedLabel(v) ==
    CASE v = 0 -> "1MB" [] v = 1 -> "2MB" [] v = 2 -> "4MB"
      [] v = 3 -> "8MB" [] v = 4 -> "16MB" [] v = 5 -> "32MB"
      [] OTHER -> "unknown"

\* the markers in the documented order, with the text each is reported as
ExpectedMarkers ==
    << [bytes |-> <<52, 48, 57, 54>>,      text |-> <<"4", "0", "9", "6">>],
       [bytes |-> <<56, 49, 57, 50>>,      text |-> <<"8", "1", "9", "2">>],
       [bytes |-> <<56, 77, 66>>,          text |-> <<"8", "M", "B">>],
       [bytes |-> <<52, 77, 66>>,          text |-> <<"4", "M", "B">>],
       [bytes |-> <<56, 49, 57, 50, 107>>, text |-> <<"8", "1", "9", "2", "k">>],
       [bytes |-> <<52, 48, 57, 54, 107>>, text |-> <<"4", "0", "9", "6", "k">>] >>

ReportOf(e) == <<"Found ascii marker:">> \o e.text
IsMarkerLine(line) == Len(line) > 0 /\ line[1] = "Found ascii marker:"
IsDoneLine(line) == line = <<"Done">>
DoneCount == Cardinality({ k \in 1..Len(out) : IsDoneLine(out[k]) })

RECURSIVE ExpectedReports(_, _)
ExpectedReports(es, c) ==
    IF es = <<>> THEN <<>>
    ELSE (IF Occurs(Head(es).bytes, c) THEN <<ReportOf(Head(es))>> ELSE <<>>)
         \o ExpectedReports(Tail(es), c)

(***************************************************************************)
(* Properties                                                              *)
(***************************************************************************)

\* C1: a file shorter than 8 bytes (the empty file included) makes the run
\* print "File too small" and nothing else, and end with exit status 2
\* without an uncaught exception.
C1_TooSmall ==
    TooSmallFile =>
        /\ fault = "none"
        /\ exitStatus \in {-1, 2}
        /\ out \in { <<>>, << <<"File too small">> >> }
        /\ Finished => (out = << <<"File too small">> >> /\ exitStatus = 2)

C1_Witness ==
    /\ Finished
    /\ IsFile
    /\ Len(input.bytes) = 7
    /\ out = << <<"File too small">> >>
    /\ exitStatus = 2

\* C2: a path that does not exist or cannot be opened ends the run with a
\* clean exit status of its own (not 0, not 2), with no output and without
\* an uncaught exception.
C2_MissingFileClean ==
    (NoPath /\ Finished) =>
        /\ fault = "none"
        /\ exitStatus \notin {0, 2}
        /\ out = <<>>

\* C3: for every SPI byte 0..255, low3 = value mod 8, low4 = value mod 16 and
\* high3 = (value div 16) mod 8, within 0..7, 0..15 and 0..7; a candidate in
\* 0..5 is printed with its fixed label and any other one with "unknown".
C3_MasksAndLabels ==
    (low3 # -1) =>
        /\ spi_byte \in Byte
        /\ low3 = spi_byte % 8 /\ low3 \in 0..7
        /\ low4 = spi_byte % 16 /\ low4 \in 0..15
        /\ high3 = (spi_byte \div 16) % 8 /\ high3 \in 0..7
        /\ \A k \in LinesWith(" - lower 3 bits ->") : LastPiece(out[k]) = ExpectedLabel(low3)
        /\ \A k \in LinesWith(" - lower 4 bits ->") : LastPiece(out[k]) = ExpectedLabel(low4)
        /\ \A k \in LinesWith(" - upper 3 bits ->") : LastPiece(out[k]) = ExpectedLabel(high3)
        /\ pc \notin {"decode", "candidates"} =>
              /\ LinesWith(" - lower 3 bits ->") # {}
              /\ LinesWith(" - lower 4 bits ->") # {}
              /\ LinesWith(" - upper 3 bits ->") # {}

C3_Witness ==
    /\ pc = "open2"
    /\ magic = 233 /\ seg_count = 3 /\ spi_byte = 2
    /\ low3 = 2 /\ low4 = 2 /\ high3 = 0
    /\ \E k \in LinesWith(" - lower 3 bits ->") : LastPiece(out[k]) = "4MB"
    /\ \E k \in LinesWith(" - lower 4 bits ->") : LastPiece(out[k]) = "4MB"
    /\ \E k \in LinesWith(" - upper 3 bits ->") : LastPiece(out[k]) = "1MB"

\* C4: for a file of at least 8 bytes, a marker of the fixed set is reported
\* if and only if its byte sequence occurs somewhere in the whole file.
C4_MarkerIffOccurs ==
    (OkFile /\ Finished) =>
        \A n \in 1..Len(ExpectedMarkers) :
            (\E k \in 1..Len(out) : out[k] = ReportOf(ExpectedMarkers[n]))
                <=> Occurs(ExpectedMarkers[n].bytes, input.bytes)

C4_Witness ==
    /\ OkFile /\ Finished
    /\ Len(input.bytes) > 32
    /\ Occurs(<<52, 77, 66>>, input.bytes)
    /\ ~Occurs(<<52, 77, 66>>, SubSeq(input.bytes, 1, 32))
    /\ \E k \in 1..Len(out) : out[k] = <<"Found ascii marker:", "4", "M", "B">>

\* C5: for a file of at least 8 bytes the run never ends in an exception or a
\* non-zero status; it always reaches its end with status 0, having produced
\* one magic, one segment count and one SPI byte (bytes 0, 1, 2 of the file)
\* and three candidate lines, whether or not a candidate is unknown.
C5_State ==
    OkFile =>
        /\ fault = "none"
        /\ exitStatus \in {-1, 0}
        /\ Finished =>
              /\ exitStatus = 0
              /\ magic = input.bytes[1]
              /\ seg_count = input.bytes[2]
              /\ spi_byte = input.bytes[3]
              /\ Cardinality(LinesWith("Magic: 0x")) = 1
              /\ Cardinality(LinesWith("Segment count: ")) = 1
              /\ Cardinality(LinesWith("Raw spi byte: 0x")) = 1
              /\ Cardinality(LinesWith(" - lower 3 bits ->")) = 1
              /\ Cardinality(LinesWith(" - lower 4 bits ->")) = 1
              /\ Cardinality(LinesWith(" - upper 3 bits ->")) = 1

C5_AlwaysCompletes ==
    /\ []C5_State
    /\ (OkFile /\ pc = "argv") ~> (Finished /\ exitStatus = 0)

C5_Witness ==
    /\ OkFile /\ Finished /\ exitStatus = 0
    /\ low3 \notin 0..5 /\ low4 \notin 0..5 /\ high3 \notin 0..5
    /\ \A k \in 1..Len(out) : ~IsMarkerLine(out[k])

C7_MarkerOrder ==
    (OkFile /\ Finished) =>
        SelectSeq(out, IsMarkerLine) = ExpectedReports(ExpectedMarkers, input.bytes)

C7_Witness ==
    /\ Finished
    /\ input.bytes = <<52, 77, 66, 52, 77, 66, 52, 48, 57, 54>>
    /\ SelectSeq(out, IsMarkerLine) =
          << <<"Found ascii marker:", "4", "0", "9", "6">>,
             <<"Found ascii marker:", "4", "M", "B">> >>

\* C8: "Done" is printed once, as the last line, by every run that exits 0,
\* after the hex dump, the fields, the candidates and the marker lines, and
\* by no other run.
C8_DoneLast ==
    /\ (Finished /\ exitStatus = 0) =>
          /\ DoneCount = 1
          /\ IsDoneLine(out[Len(out)])
          /\ LinesWith("Header bytes:") # {}
          /\ LinesWith("Magic: 0x") # {}
          /\ LinesWith("Segment count: ") # {}
          /\ LinesWith("Raw spi byte: 0x") # {}
          /\ LinesWith(" - lower 3 bits ->") # {}
          /\ LinesWith(" - lower 4 bits ->") # {}
          /\ LinesWith(" - upper 3 bits ->") # {}
    /\ ~(Finished /\ exitStatus = 0) => DoneCount = 0

C8_Witness ==
    /\ Finished /\ exitStatus = 0
    /\ IsDoneLine(out[Len(out)])
    /\ \E k \in 1..Len(out) : IsMarkerLine(out[k])

\* C9: at most one file object is open at any time; the one of the 32-byte
\* read is closed before the size test, before any output and before the
\* second open, and none is open when the run has ended.
C9_Handles ==
    /\ Cardinality(f) <= 1
    /\ 1 \in f => (pc \in {"read1", "close1"} /\ out = <<>>)
    /\ pc \in {"check", "exit2", "open2"} => f = {}
    /\ Finished => f = {}

C9_Witness ==
    /\ pc = "close2"
    /\ f = {2}
    /\ content = input.bytes
    /\ out # <<>>

\* C10: whenever the lower-4-bits candidate is in 0..5 the lower-3-bits
\* candidate has the same value and label; the two values differ only when
\* low4 is in 8..15, where its label is "unknown"; so the two never show two
\* different known labels.
C10_LowCandidatesCoupled ==
    (low4 # -1) =>
        /\ low4 \in 0..5 => (low3 = low4 /\ size_map_get(low3) = size_map_get(low4))
        /\ low3 # low4 => (low4 \in 8..15 /\ size_map_get(low4) = "unknown")
        /\ (size_map_get(low3) # "unknown" /\ size_map_get(low4) # "unknown")
              => size_map_get(low3) = size_map_get(low4)

C10_Witness ==
    /\ pc = "open2"
    /\ spi_byte = 10
    /\ low3 = 2 /\ low4 = 10
    /\ \E k \in LinesWith(" - lower 3 bits ->") : LastPiece(out[k]) = "4MB"
    /\ \E k \in LinesWith(" - lower 4 bits ->") : LastPiece(out[k]) = "unknown"

====
